---- MODULE Spec2Model ----
(***************************************************************************)
(* The leaderboard fetch-and-export pipeline of auto_leaderboard.py:       *)
(* LeaderboardFetcher (fetch_page, fetch_all_participants, generate_csv,   *)
(* update_leaderboard) and the poll loop of run_automation.                *)
(*                                                                         *)
(* One process, one program counter.  A step of the model is one           *)
(* statement (or one blocking call) of the source; an operator interrupt   *)
(* (KeyboardInterrupt) may arrive between any two steps.                   *)
(***************************************************************************)
EXTENDS Integers, Sequences, FiniteSets, TLC

VARIABLES
    pc,                \* position of the process in the source
    mode,              \* who drives the fetcher: run_automation, or a direct caller of generate_csv
    scheduled,         \* the job is registered with `schedule` (line 170): the poll loop's try block is entered
    due,               \* schedule: the job is due (the clock has reached its next_run)
    interrupted,       \* the operator has pressed Ctrl+C
    limit,             \* fetch_all_participants: limit
    offset,            \* fetch_all_participants: offset
    data,              \* fetch_all_participants: data (what fetch_page returned)
    all_participants,  \* fetch_all_participants: all_participants
    participants,      \* update_leaderboard / generate_csv: participants
    i,                 \* generate_csv: number of lines handed to the csv writer so far
    metadata,          \* generate_csv: metadata
    success,           \* what generate_csv returned
    result,            \* what update_leaderboard returned
    csv_file,          \* the file self.output_file (leaderboard.csv)
    meta_file,         \* the file leaderboard_metadata.json
    trace,             \* history: the requests of the current cycle, <<[offset, data], ...>>
    calls,             \* history: number of direct calls of generate_csv
    before             \* history: the files and the outcome at the previous direct call

vars == <<pc, mode, scheduled, due, interrupted, limit, offset, data,
          all_participants, participants, i, metadata, success, result,
          csv_file, meta_file, trace, calls, before>>

-----------------------------------------------------------------------------
(* Bounds of the model *)

\* page sizes 1..MaxLimit are explored (the source fixes limit = 100; the loop
\* is uniform in the value)
MaxLimit == 2
\* the server holds at most MaxPages pages that do not end the pagination
MaxPages == 3
\* a direct caller hands generate_csv at most MaxBatch records
MaxBatch == 2
\* datetime.now() returns one of the instants 0..MaxTime
MaxTime == 1

-----------------------------------------------------------------------------
(* Participant records (the elements of the JSON array 'models') *)

fieldnames == <<"rank", "hacker", "score", "time_taken", "country", "school", "avatar">>

Fields == {fieldnames[k] : k \in 1..Len(fieldnames)}

NumericFields == {"rank", "score", "time_taken"}

Hackers == <<"ann", "bob", "cyd">>
Countries == <<"Sri Lanka", "India">>

\* The record the server holds at a rank, all seven fields present.
FullRecord(rank) ==
    [f \in Fields |->
        CASE f = "rank"       -> rank
          [] f = "hacker"     -> Hackers[(rank % Len(Hackers)) + 1]
          [] f = "score"      -> 101 - rank
          [] f = "time_taken" -> 3600 + 60 * rank
          [] f = "country"    -> Countries[(rank % Len(Countries)) + 1]
          [] f = "school"     -> "SLIIT"
          [] f = "avatar"     -> "https://img"]

\* A record that carries only the fields of S (a dict with the other keys absent).
Record(rank, S) == [f \in S |-> FullRecord(rank)[f]]

\* The page the server returns for offset and a record count n.
Page(off, n) == [j \in 1..n |-> FullRecord(off + j)]

-----------------------------------------------------------------------------
(* JSON bodies and what fetch_page returns *)

None == [type |-> "None", keys |-> {}, models |-> << >>]
\* a JSON scalar that is truthy in Python: true, or a non-zero number
JsonScalar == [type |-> "scalar", keys |-> {}, models |-> << >>]
\* the JSON object {}
EmptyObject == [type |-> "object", keys |-> {}, models |-> << >>]
\* a JSON object without the key 'models', such as {"message": "..."}
ErrorObject == [type |-> "object", keys |-> {"message"}, models |-> << >>]
\* a JSON object {"models": [...]}
ModelsObject(ms) == [type |-> "object", keys |-> {"models"}, models |-> ms]

\* requests.exceptions.RequestException and its subclasses raised by
\* requests.get, raise_for_status and response.json
RequestExceptions == {"ConnectionError", "Timeout", "HTTPError", "JSONDecodeError"}

\* What one HTTP exchange can produce for the request (off, lim), the k-th of
\* its cycle: an exception of requests, a body that is no page, or a page of
\* at most lim records (a full page only while the server has more).
Responses(off, lim, k) ==
    {[kind |-> e, body |-> None] : e \in RequestExceptions}
    \cup {[kind |-> "ok", body |-> b] : b \in {JsonScalar, EmptyObject, ErrorObject}}
    \cup {[kind |-> "ok", body |-> ModelsObject(Page(off, n))] :
            n \in {m \in 0..lim : m < lim \/ k < MaxPages}}

\* fetch_page: the body, or None when requests raised a RequestException
fetch_page(resp) ==
    IF resp.kind \in RequestExceptions THEN None ELSE resp.body

\* Python truthiness of what fetch_page returned: None and {} are falsy
Truthy(d) == d.type = "scalar" \/ (d.type = "object" /\ d.keys # {})

\* a full page taken for the last one
is_last_page_stops_on_full(n, lim) == n <= lim

\* line 81: the page is the last one
is_last_page(n, lim) == n < lim

\* line 84: the next offset
next_offset(off, lim) == off + lim

\* One pass through the body of the while loop, lines 71-85, after
\* data = self.fetch_page(offset, limit): what the pass does.
\*   "break"            lines 72 and 76
\*   "TypeError"        line 71: 'models' not in data, data not a container
\*   "extend_break"     lines 78-82
\*   "extend_continue"  lines 78-85
LoopStep(d, lim) ==
    IF ~Truthy(d) THEN "break"
    ELSE IF d.type = "scalar" THEN "TypeError"
    ELSE IF "models" \notin d.keys THEN "break"
    ELSE IF d.models = << >> THEN "break"
    ELSE IF is_last_page(Len(d.models), lim) THEN "extend_break"
    ELSE "extend_continue"

-----------------------------------------------------------------------------
(* Exceptions and the handlers that catch them *)

\* the subclasses of Exception that the pipeline can raise
Exceptions == RequestExceptions \cup {"TypeError", "OSError"}

\* generate_csv, line 129: except Exception
GenCsvCatches(exc) == exc \in Exceptions

\* a handler that catches only the exceptions of requests
UpdateCatchesRequestsOnly(exc) == exc \in RequestExceptions

\* update_leaderboard, line 154: except Exception
UpdateCatches(exc) == exc \in Exceptions

\* a try block around the whole of run_automation
RunCatchesEverywhere(exc) == exc = "KeyboardInterrupt"

\* run_automation, line 181: except KeyboardInterrupt, around the poll loop only
RunCatches(exc) == scheduled /\ exc = "KeyboardInterrupt"

\* Where an exception raised in run_automation or propagated to it ends.
UnwindRun(exc) == IF RunCatches(exc) THEN "stopped" ELSE "crashed"

\* Where an exception raised in update_leaderboard (or in
\* fetch_all_participants, which has no handler) ends.
UnwindUpdate(exc) == IF UpdateCatches(exc) THEN "except" ELSE UnwindRun(exc)

\* Where an exception raised in generate_csv ends.
UnwindGenCsv(exc) ==
    IF GenCsvCatches(exc) THEN "csv_except"
    ELSE IF mode = "direct" THEN "raised"
    ELSE UnwindUpdate(exc)

-----------------------------------------------------------------------------
(* Files *)

NoFile == [exists |-> FALSE, content |-> << >>]
\* open(path, 'w') creates or truncates the file
Truncated == [exists |-> TRUE, content |-> << >>]

NoMetadata == [total_participants |-> 0, generated_at |-> "", top_score |-> 0,
               last_update |-> ""]

\* participant.get(f, default) as the csv writer renders it: str() of a number,
\* a string as it is; the defaults are '' and 0
Cell(p, f) ==
    IF f \in DOMAIN p
    THEN (IF f \in NumericFields THEN ToString(p[f]) ELSE p[f])
    ELSE (IF f \in {"score", "time_taken"} THEN "0" ELSE "")

\* a row of the fields the participant carries only
RowOfPresentFields(p) ==
    LET present == SelectSeq(fieldnames, LAMBDA f : f \in DOMAIN p) IN
    [k \in 1..Len(present) |-> Cell(p, present[k])]

\* lines 103-111: the row written for one participant
Row(p) == [k \in 1..Len(fieldnames) |-> Cell(p, fieldnames[k])]

\* the score of the last record instead of the first
top_score_of_last(ps) ==
    IF ps = << >> THEN 0
    ELSE IF "score" \in DOMAIN ps[Len(ps)] THEN ps[Len(ps)]["score"] ELSE 0

\* line 119: participants[0].get('score', 0) if participants else 0
top_score(ps) ==
    IF ps = << >> THEN 0
    ELSE IF "score" \in DOMAIN ps[1] THEN ps[1]["score"] ELSE 0

\* datetime.now().isoformat() and datetime.now().strftime(...)
isoformat(t) == ToString(t)
strftime(t) == ToString(t)

\* lines 116-121
Metadata(ps, t1, t2) ==
    [total_participants |-> Len(ps),
     generated_at       |-> isoformat(t1),
     top_score          |-> top_score(ps),
     last_update        |-> strftime(t2)]

\* The line the csv writer is handed as its k-th: the header, then the rows.
Line(ps, k) == IF k = 1 THEN fieldnames ELSE Row(ps[k - 1])

-----------------------------------------------------------------------------
(* What a direct caller may hand to generate_csv *)

\* shapes of the records after the first of a batch
RestShapes == {Fields, {"rank", "hacker"}}

\* n records, the first carrying the fields S and the others the fields T
Batch(n, S, T) == [j \in 1..n |-> Record(j, IF j = 1 THEN S ELSE T)]

Batches == {Batch(n, S, T) : n \in 0..MaxBatch, S \in SUBSET Fields, T \in RestShapes}

Times == 0..MaxTime

-----------------------------------------------------------------------------
(* Initial state: a LeaderboardFetcher has been constructed, nothing has run *)

Init ==
    /\ pc = "constructed"
    /\ mode = "none"
    /\ scheduled = FALSE
    /\ due = FALSE
    /\ interrupted = FALSE
    /\ limit = 0
    /\ offset = 0
    /\ data = None
    /\ all_participants = << >>
    /\ participants = << >>
    /\ i = 0
    /\ metadata = NoMetadata
    /\ success = FALSE
    /\ result = FALSE
    /\ csv_file = NoFile
    /\ meta_file = NoFile
    /\ trace = << >>
    /\ calls = 0
    /\ before = [csv |-> NoFile, meta |-> NoFile, batch |-> << >>, ok |-> FALSE]

files == <<csv_file, meta_file>>
fetch_locals == <<limit, offset, data, all_participants, trace>>
csv_locals == <<i, metadata, success>>
run_state == <<mode, scheduled, due, interrupted>>
history == <<calls, before>>

-----------------------------------------------------------------------------
(* run_automation *)

\* lines 159-163: run_automation is called
RunAutomation ==
    /\ pc = "constructed"
    /\ pc' = "startup"
    /\ mode' = "run_automation"
    /\ UNCHANGED <<scheduled, due, interrupted, fetch_locals, participants,
                   csv_locals, result, files, history>>

\* lines 166-167: the initial update
InitialUpdate ==
    /\ pc = "startup"
    /\ pc' = "update"
    /\ UNCHANGED <<run_state, fetch_locals, participants, csv_locals, result,
                   files, history>>

\* update_leaderboard has returned to run_automation (line 167), or to the job
\* that schedule.run_pending ran (line 179), which sets the job's next run
\* one interval ahead; the returned value is dropped
UpdateReturned ==
    /\ pc = "updated"
    /\ pc' = IF scheduled THEN "poll" ELSE "schedule"
    /\ due' = FALSE
    /\ result' = FALSE
    /\ participants' = << >>
    /\ limit' = 0
    /\ trace' = << >>
    /\ UNCHANGED <<mode, scheduled, interrupted, offset, data, all_participants,
                   csv_locals, files, history>>

\* line 170: schedule.every(interval_minutes).minutes.do(...)
Schedule ==
    /\ pc = "schedule"
    /\ pc' = "poll"
    /\ scheduled' = TRUE
    /\ due' = FALSE
    /\ UNCHANGED <<mode, interrupted, fetch_locals, participants, csv_locals,
                   result, files, history>>

\* lines 179-180 while the job is not due: run_pending does nothing, sleep.
\* One step stands for the iterations up to the one whose sleep ends after
\* the job's next_run (interval_minutes after it was scheduled).
PollSleep ==
    /\ pc = "poll"
    /\ ~due
    /\ due' = TRUE
    /\ UNCHANGED <<pc, mode, scheduled, interrupted, fetch_locals, participants,
                   csv_locals, result, files, history>>

\* line 179 when the job is due: run_pending calls update_leaderboard
PollRun ==
    /\ pc = "poll"
    /\ due
    /\ pc' = "update"
    /\ UNCHANGED <<run_state, fetch_locals, participants, csv_locals, result,
                   files, history>>

-----------------------------------------------------------------------------
(* update_leaderboard and fetch_all_participants *)

\* lines 135-140 and 62-66: update_leaderboard calls fetch_all_participants
StartFetch ==
    /\ pc = "update"
    /\ pc' = "fetch_page"
    /\ limit' \in 1..MaxLimit
    /\ offset' = 0
    /\ all_participants' = << >>
    /\ data' = None
    /\ trace' = << >>
    /\ UNCHANGED <<run_state, participants, csv_locals, result, files, history>>

\* line 69: data = self.fetch_page(offset, limit)
FetchPage ==
    /\ pc = "fetch_page"
    /\ \E resp \in Responses(offset, limit, Len(trace) + 1) :
          /\ data' = fetch_page(resp)
          /\ trace' = Append(trace, [offset |-> offset, data |-> fetch_page(resp)])
    /\ pc' = "check_data"
    /\ UNCHANGED <<run_state, limit, offset, all_participants, participants,
                   csv_locals, result, files, history>>

\* lines 71-85, and line 87 with line 140 when the loop is left
CheckData ==
    /\ pc = "check_data"
    /\ LET step == LoopStep(data, limit) IN
        \/ /\ step = "break"
           /\ pc' = "branch"
           /\ participants' = all_participants
           /\ UNCHANGED offset
           /\ all_participants' = << >>
        \/ /\ step = "TypeError"
           /\ pc' = UnwindUpdate("TypeError")
           /\ UNCHANGED <<participants, offset>>
           /\ all_participants' = << >>
        \/ /\ step = "extend_break"
           /\ pc' = "branch"
           /\ participants' = all_participants \o data.models
           /\ UNCHANGED offset
           /\ all_participants' = << >>
        \/ /\ step = "extend_continue"
           /\ pc' = "sleep"
           /\ all_participants' = all_participants \o data.models
           /\ offset' = next_offset(offset, limit)
           /\ UNCHANGED participants
    /\ UNCHANGED <<run_state, limit, data, trace, csv_locals, result, files, history>>

\* line 85: time.sleep(1)
Sleep ==
    /\ pc = "sleep"
    /\ pc' = "fetch_page"
    /\ UNCHANGED <<run_state, fetch_locals, participants, csv_locals, result,
                   files, history>>

\* lines 142, 143 and 150
Branch ==
    /\ pc = "branch"
    /\ pc' = IF participants # << >> THEN "generate_csv" ELSE "no_participants"
    /\ offset' = 0
    /\ data' = None
    /\ UNCHANGED <<run_state, limit, all_participants, trace, participants,
                   csv_locals, result, files, history>>

\* lines 151-152
NoParticipants ==
    /\ pc = "no_participants"
    /\ pc' = "updated"
    /\ result' = FALSE
    /\ UNCHANGED <<run_state, fetch_locals, participants, csv_locals, files, history>>

\* lines 154-156
Except ==
    /\ pc = "except"
    /\ pc' = "updated"
    /\ result' = FALSE
    /\ offset' = 0
    /\ data' = None
    /\ UNCHANGED <<run_state, limit, all_participants, trace, participants,
                   csv_locals, files, history>>

\* update_leaderboard returning True whatever generate_csv returned
AfterGenerateCsvAlwaysTrue ==
    /\ pc = "csv_ret"
    /\ mode = "run_automation"
    /\ pc' = "updated"
    /\ result' = TRUE
    /\ success' = FALSE
    /\ UNCHANGED <<run_state, fetch_locals, participants, i, metadata, files, history>>

\* lines 144-149: generate_csv has returned to update_leaderboard
AfterGenerateCsv ==
    /\ pc = "csv_ret"
    /\ mode = "run_automation"
    /\ pc' = "updated"
    /\ result' = success
    /\ success' = FALSE
    /\ UNCHANGED <<run_state, fetch_locals, participants, i, metadata, files, history>>

-----------------------------------------------------------------------------
(* generate_csv *)

\* generate_csv without the check of lines 91-93
GenCsvNoCheck ==
    /\ pc = "generate_csv"
    /\ pc' = "open_csv"
    /\ UNCHANGED <<run_state, fetch_locals, participants, csv_locals, result,
                   files, history>>

\* lines 91-93
GenCsvCheck ==
    /\ pc = "generate_csv"
    /\ \/ /\ participants = << >>
          /\ pc' = "csv_ret"
          /\ success' = FALSE
       \/ /\ participants # << >>
          /\ pc' = "open_csv"
          /\ UNCHANGED success
    /\ UNCHANGED <<run_state, fetch_locals, participants, i, metadata, result,
                   files, history>>

\* the file opened for appending, 'a', instead of 'w'
OpenCsvAppend ==
    /\ pc = "open_csv"
    /\ \/ /\ pc' = "write_rows"
          /\ csv_file' = [exists |-> TRUE, content |-> csv_file.content]
       \/ /\ pc' = UnwindGenCsv("OSError")
          /\ UNCHANGED csv_file
    /\ i' = 0
    /\ UNCHANGED <<run_state, fetch_locals, participants, metadata, success,
                   result, meta_file, history>>

\* line 96: open(self.output_file, 'w', ...), which may raise OSError
OpenCsv ==
    /\ pc = "open_csv"
    /\ \/ /\ pc' = "write_rows"
          /\ csv_file' = Truncated
       \/ /\ pc' = UnwindGenCsv("OSError")
          /\ UNCHANGED csv_file
    /\ i' = 0
    /\ UNCHANGED <<run_state, fetch_locals, participants, metadata, success,
                   result, meta_file, history>>

\* lines 100-111: writeheader, then one writerow per participant; a write may
\* raise OSError and leaves what was written before it
WriteLine ==
    /\ pc = "write_rows"
    /\ i < Len(participants) + 1
    /\ \/ /\ csv_file' = [csv_file EXCEPT !.content = Append(@, Line(participants, i + 1))]
          /\ i' = i + 1
          /\ UNCHANGED pc
       \/ /\ pc' = UnwindGenCsv("OSError")
          /\ UNCHANGED <<csv_file, i>>
    /\ UNCHANGED <<run_state, fetch_locals, participants, metadata, success,
                   result, meta_file, history>>

\* lines 112-113: the with block is left, the file is closed
CloseCsv ==
    /\ pc = "write_rows"
    /\ i = Len(participants) + 1
    /\ pc' = "metadata"
    /\ UNCHANGED <<run_state, fetch_locals, participants, csv_locals, result,
                   files, history>>

\* lines 116-121: two readings of the clock, the second not before the first
BuildMetadata ==
    /\ pc = "metadata"
    /\ \E t1 \in Times : \E t2 \in {t \in Times : t >= t1} :
          metadata' = Metadata(participants, t1, t2)
    /\ pc' = "open_meta"
    /\ UNCHANGED <<run_state, fetch_locals, participants, i, success, result,
                   files, history>>

\* line 123: open('leaderboard_metadata.json', 'w'), which may raise OSError
OpenMeta ==
    /\ pc = "open_meta"
    /\ \/ /\ pc' = "dump"
          /\ meta_file' = Truncated
       \/ /\ pc' = UnwindGenCsv("OSError")
          /\ UNCHANGED meta_file
    /\ UNCHANGED <<run_state, fetch_locals, participants, csv_locals, result,
                   csv_file, history>>

\* lines 124-127: json.dump, which may raise OSError, then return True
Dump ==
    /\ pc = "dump"
    /\ \/ /\ pc' = "csv_ret"
          /\ meta_file' = [exists |-> TRUE, content |-> <<metadata>>]
          /\ success' = TRUE
          /\ i' = 0
          /\ metadata' = NoMetadata
       \/ /\ pc' = UnwindGenCsv("OSError")
          /\ UNCHANGED <<meta_file, csv_locals>>
    /\ UNCHANGED <<run_state, fetch_locals, participants, result, csv_file, history>>

\* lines 129-131
CsvExcept ==
    /\ pc = "csv_except"
    /\ pc' = "csv_ret"
    /\ success' = FALSE
    /\ i' = 0
    /\ metadata' = NoMetadata
    /\ UNCHANGED <<run_state, fetch_locals, participants, result, files, history>>

\* A caller other than update_leaderboard calls generate_csv(b): a first time
\* with any batch, and a second time with the same batch or with another one.
CallGenerateCsv ==
    /\ \/ pc = "constructed"
       \/ pc = "csv_ret" /\ mode = "direct"
    /\ calls < 2
    /\ \E b \in (IF calls = 0 THEN Batches
                  ELSE {participants, Batch(1, Fields, Fields)}) :
          participants' = b
    /\ before' = [csv |-> csv_file, meta |-> meta_file, batch |-> participants,
                  ok |-> success]
    /\ calls' = calls + 1
    /\ mode' = "direct"
    /\ pc' = "generate_csv"
    /\ success' = FALSE
    /\ UNCHANGED <<scheduled, due, interrupted, fetch_locals, i, metadata,
                   result, files>>

-----------------------------------------------------------------------------
(* The operator interrupt *)

GenCsvPcs == {"generate_csv", "open_csv", "write_rows", "metadata", "open_meta",
              "dump", "csv_except", "csv_ret"}
FetchPcs == {"fetch_page", "check_data", "sleep"}
UpdatePcs == {"update", "branch", "no_participants", "except"} \cup FetchPcs
RunPcs == {"startup", "updated", "schedule", "poll"}

\* Ctrl+C: KeyboardInterrupt is raised in the main thread at the statement it
\* is executing and unwinds through the handlers around it.
Interrupt ==
    /\ mode = "run_automation"
    /\ pc \in GenCsvPcs \cup UpdatePcs \cup RunPcs
    /\ interrupted' = TRUE
    /\ pc' = IF pc \in GenCsvPcs THEN UnwindGenCsv("KeyboardInterrupt")
             ELSE IF pc \in UpdatePcs THEN UnwindUpdate("KeyboardInterrupt")
             ELSE UnwindRun("KeyboardInterrupt")
    /\ UNCHANGED <<mode, scheduled, due, fetch_locals, participants,
                   csv_locals, result, files, history>>

-----------------------------------------------------------------------------

\* the steps of the program itself
Program ==
    \/ InitialUpdate
    \/ UpdateReturned
    \/ Schedule
    \/ PollSleep
    \/ PollRun
    \/ StartFetch
    \/ FetchPage
    \/ CheckData
    \/ Sleep
    \/ Branch
    \/ NoParticipants
    \/ Except
    \/ AfterGenerateCsv
    \/ GenCsvCheck
    \/ OpenCsv
    \/ WriteLine
    \/ CloseCsv
    \/ BuildMetadata
    \/ OpenMeta
    \/ Dump
    \/ CsvExcept

Next ==
    \/ RunAutomation
    \/ CallGenerateCsv
    \/ Interrupt
    \/ Program

Spec == Init /\ [][Next]_vars

\* run_automation alone: the interpreter keeps executing the program and
\* time passes; the operator may never interrupt.
NextRun ==
    \/ RunAutomation
    \/ Interrupt
    \/ Program

LiveSpec == Init /\ [][NextRun]_vars /\ WF_vars(Program)

-----------------------------------------------------------------------------
(* Vocabulary of the properties *)

CyclePcs == UpdatePcs \cup GenCsvPcs

\* fetch_all_participants has returned to update_leaderboard
Returned == pc \in {"branch", "no_participants", "updated"} \cup GenCsvPcs

InRun == mode = "run_automation"

\* a response that carries a page: a JSON object with the field 'models'
IsPage(d) == d.type = "object" /\ "models" \in d.keys

\* a page of 0 records, or of fewer than the page size
StopsAt(d, P) == Len(d.models) = 0 \/ Len(d.models) < P

RECURSIVE ConcatPages(_)
ConcatPages(tr) ==
    IF tr = << >> THEN << >>
    ELSE ConcatPages(SubSeq(tr, 1, Len(tr) - 1)) \o tr[Len(tr)].data.models

WellFormed(p) == DOMAIN p = Fields

\* the file holds the header and one row per record of ps, and nothing else
CsvHolds(ps) ==
    /\ csv_file.exists
    /\ Len(csv_file.content) = Len(ps) + 1
    /\ csv_file.content[1] = fieldnames
    /\ \A j \in 1..Len(ps) :
          /\ Len(csv_file.content[j + 1]) = 7
          /\ WellFormed(ps[j]) =>
                csv_file.content[j + 1] =
                    <<ToString(ps[j]["rank"]), ps[j]["hacker"], ToString(ps[j]["score"]),
                      ToString(ps[j]["time_taken"]), ps[j]["country"], ps[j]["school"],
                      ps[j]["avatar"]>>

\* the metadata file holds one complete object, written for ps
MetaHolds(ps) ==
    /\ meta_file.exists
    /\ Len(meta_file.content) = 1
    /\ meta_file.content[1].total_participants = Len(ps)
    /\ WellFormed(ps[1]) => meta_file.content[1].top_score = ps[1]["score"]

-----------------------------------------------------------------------------
(* C1: for every page size P, when every response of the cycle carries a  *)
(* page, fetch_all_participants requests the offsets 0, P, 2P, ..., goes   *)
(* on after every page of P records or more, stops at the first page of 0  *)
(* records or of fewer than P, and returns the concatenation, in arrival   *)
(* order, of the pages up to and including that one.                       *)
C1_FetchAllStopsAtFirstShortPage ==
    (InRun /\ trace # << >> /\ \A k \in 1..Len(trace) : IsPage(trace[k].data)) =>
        LET n == Len(trace) IN
        /\ \A k \in 1..n : trace[k].offset = (k - 1) * limit
        /\ \A k \in 1..(n - 1) : ~StopsAt(trace[k].data, limit)
        /\ pc \in {"sleep", "fetch_page"} => ~StopsAt(trace[n].data, limit)
        /\ Returned =>
              /\ StopsAt(trace[n].data, limit)
              /\ participants = ConcatPages(trace)

C1_Witness ==
    /\ InRun /\ pc = "branch"
    /\ Len(trace) = 2
    /\ \A k \in 1..Len(trace) : IsPage(trace[k].data)
    /\ Len(trace[2].data.models) = 1
    /\ limit = 2
    /\ Len(participants) > limit

-----------------------------------------------------------------------------
(* C2: when the first page fetch of a cycle fails (fetch_page returns      *)
(* None), fetch_all_participants returns an empty batch after that one     *)
(* request, the export is not entered, update_leaderboard returns False,   *)
(* and no step of the cycle changes the CSV file or the metadata file;     *)
(* generate_csv called with an empty batch returns False and changes       *)
(* neither file.                                                           *)
FirstFetchFailed == InRun /\ trace # << >> /\ trace[1].data = None

C2_FirstPageFailureWritesNothing ==
    /\ [](FirstFetchFailed =>
            /\ Len(trace) = 1
            /\ pc \notin GenCsvPcs
            /\ Returned => participants = << >>
            /\ pc = "updated" => ~result)
    /\ [][(pc = "update" \/ (pc = "fetch_page" /\ trace = << >>) \/ FirstFetchFailed)
            => files' = files]_vars
    /\ [][(mode = "direct" /\ participants = << >>) => files' = files]_vars
    /\ []((mode = "direct" /\ participants = << >> /\ pc = "csv_ret") =>
            /\ ~success
            /\ csv_file = before.csv /\ meta_file = before.meta)

\* a scheduled cycle whose first fetch failed has ended, and the export of an
\* earlier cycle is still there
C2_Witness ==
    /\ FirstFetchFailed
    /\ pc = "updated"
    /\ scheduled
    /\ Len(csv_file.content) > 1
    /\ Len(meta_file.content) = 1

-----------------------------------------------------------------------------
(* C3: for every non-empty batch of N records, when generate_csv returns   *)
(* True the CSV file holds exactly N+1 lines, the header and one row per   *)
(* record in batch order (the record's seven values when it is well        *)
(* formed), and the metadata file holds total_participants = N and, the    *)
(* first record being well formed, top_score = its score.                  *)
C3_ExportWritesAllRecords ==
    ((pc = "csv_ret" /\ success) \/ (pc = "updated" /\ result)) =>
        /\ participants # << >>
        /\ CsvHolds(participants)
        /\ MetaHolds(participants)

C3_Witness ==
    /\ pc = "csv_ret" /\ success /\ mode = "direct"
    /\ Len(participants) = 2
    /\ \A j \in 1..2 : WellFormed(participants[j])
    /\ meta_file.content[1].top_score = 100
    /\ Len(csv_file.content) = 3

-----------------------------------------------------------------------------
(* C4: when a page fetch fails after at least one page has been            *)
(* accumulated (fetch_page returns None, or the body has no 'models'       *)
(* field), fetch_all_participants stops and returns exactly the records    *)
(* accumulated from the earlier pages.                                     *)
FetchFailed(d) == d = None \/ "models" \notin d.keys

C4_FailureKeepsAccumulatedPages ==
    [][(pc = "check_data" /\ FetchFailed(data) /\ all_participants # << >>
        /\ ~interrupted')
        => (pc' = "branch" /\ participants' = all_participants)]_vars

\* the same, for the responses other than a JSON scalar
C4_FailureKeepsAccumulatedPagesUnlessScalar ==
    [][(pc = "check_data" /\ FetchFailed(data) /\ data.type # "scalar"
        /\ all_participants # << >> /\ ~interrupted')
        => (pc' = "branch" /\ participants' = all_participants)]_vars

-----------------------------------------------------------------------------
(* C5: update_leaderboard never raises: whatever the page fetches and the  *)
(* file writes do, a cycle is left only by returning (or by the operator's *)
(* interrupt); it returns True exactly when generate_csv returned True,    *)
(* and then the batch is not empty and both files hold it; it returns      *)
(* False when the batch is empty and when a write failed.                  *)
C5_UpdateReturnsBoolean ==
    /\ [][(pc \in CyclePcs /\ pc' \notin CyclePcs) =>
            (pc' = "updated" \/ interrupted')]_vars
    /\ [][(pc' = "updated" /\ pc # "updated") =>
            (result' <=> (pc = "csv_ret" /\ success))]_vars
    /\ [][(pc' = "csv_ret" /\ pc # "csv_ret" /\ InRun) =>
            (success' <=> (pc = "dump" /\ meta_file' # meta_file))]_vars
    /\ []((pc = "updated" /\ result) =>
            /\ participants # << >>
            /\ CsvHolds(participants)
            /\ MetaHolds(participants))

\* a cycle that fetched a batch and failed to write it has returned False
C5_Witness ==
    /\ pc = "updated" /\ ~result
    /\ participants # << >>
    /\ Len(csv_file.content) = Len(participants) + 1
    /\ meta_file = Truncated

-----------------------------------------------------------------------------
(* C6: no error ends the process: it is left crashed or stopped only by    *)
(* the operator's interrupt, and after every cycle of run_automation,      *)
(* whatever it returned, the next cycle is started unless the operator     *)
(* interrupts.                                                             *)
C6_NextCycleAlwaysStarts ==
    /\ [](pc \in {"crashed", "stopped", "raised"} => interrupted)
    /\ ((InRun /\ pc = "updated") ~> (pc = "update" \/ interrupted))

\* a scheduled cycle starts although no cycle before it wrote anything
C6_Witness ==
    /\ pc = "update" /\ scheduled /\ ~interrupted
    /\ ~csv_file.exists /\ ~meta_file.exists

-----------------------------------------------------------------------------
(* C7, as claimed: an interrupt never cuts a cycle short; a cycle in       *)
(* progress is left only by returning.                                     *)
C7_NoMidCycleCancellation ==
    [][(pc \in CyclePcs) => (pc' \in CyclePcs \/ pc' = "updated")]_vars

(* C7, amended: an interrupt is observed at the statement being executed,  *)
(* also in the middle of a cycle: the cycle is abandoned there, the files  *)
(* keep what had been written, the process exits cleanly when the poll     *)
(* loop had been entered and with the uncaught KeyboardInterrupt when it   *)
(* had not (the initial update), and it executes nothing afterwards.       *)
C7_InterruptAbandonsCycle ==
    /\ [][(interrupted' /\ ~interrupted) =>
            /\ pc' = IF scheduled THEN "stopped" ELSE "crashed"
            /\ files' = files]_vars
    /\ [](interrupted => pc \in {"stopped", "crashed"})
    /\ [][interrupted => UNCHANGED vars]_vars

\* a scheduled cycle interrupted between its two writes: the CSV file is
\* complete and there is no metadata file
C7_Witness ==
    /\ interrupted /\ pc = "stopped"
    /\ participants # << >>
    /\ CsvHolds(participants)
    /\ ~meta_file.exists

-----------------------------------------------------------------------------
(* C8: every row of the CSV file has exactly seven fields; the row written *)
(* for a record holds, in the order rank, hacker, score, time_taken,       *)
(* country, school, avatar, the value of each field the record carries,    *)
(* the empty string for a missing country, school or avatar and "0" for a  *)
(* missing score or time_taken.                                            *)
C8_RowsHaveSevenFields ==
    /\ \A k \in 1..Len(csv_file.content) : Len(csv_file.content[k]) = 7
    /\ pc \in {"write_rows", "metadata", "open_meta", "dump"} =>
          \A k \in 2..Len(csv_file.content) :
            LET p == participants[k - 1]
                row == csv_file.content[k] IN
            \A c \in 1..7 :
              LET f == fieldnames[c] IN
              /\ (f \notin DOMAIN p /\ f \in {"country", "school", "avatar"}) => row[c] = ""
              /\ (f \notin DOMAIN p /\ f \in {"score", "time_taken"}) => row[c] = "0"
              /\ (f \in DOMAIN p /\ f \in NumericFields) => row[c] = ToString(p[f])
              /\ (f \in DOMAIN p /\ f \notin NumericFields) => row[c] = p[f]

\* the row of a record that carries a rank and a hacker only has been written
C8_Witness ==
    /\ pc = "metadata"
    /\ DOMAIN participants[1] = {"rank", "hacker"}
    /\ csv_file.content[2] = <<"1", "bob", "0", "0", "", "", "">>

-----------------------------------------------------------------------------
(* C9, as claimed: a second successful generate_csv of the same batch      *)
(* leaves the CSV file as it was and the metadata equal in every field     *)
(* but generated_at.                                                       *)
SameBatchAgain ==
    /\ mode = "direct" /\ pc = "csv_ret" /\ calls = 2
    /\ success /\ before.ok
    /\ before.batch = participants

C9_IdempotentButGeneratedAt ==
    SameBatchAgain =>
        /\ csv_file = before.csv
        /\ meta_file.content[1].total_participants = before.meta.content[1].total_participants
        /\ meta_file.content[1].top_score = before.meta.content[1].top_score
        /\ meta_file.content[1].last_update = before.meta.content[1].last_update

(* C9, amended: a second successful generate_csv of the same batch leaves  *)
(* the CSV file as it was and the metadata equal in every field but the    *)
(* two timestamps generated_at and last_update; a successful generate_csv  *)
(* after another one leaves in the CSV file the lines of its own batch     *)
(* only, and in the metadata file one object.                              *)
C9_IdempotentButTimestamps ==
    /\ SameBatchAgain =>
        /\ csv_file = before.csv
        /\ Len(meta_file.content) = 1
        /\ meta_file.content[1].total_participants = before.meta.content[1].total_participants
        /\ meta_file.content[1].top_score = before.meta.content[1].top_score
    /\ (mode = "direct" /\ pc = "csv_ret" /\ calls = 2 /\ success) =>
        /\ csv_file.content = [k \in 1..(Len(participants) + 1) |-> Line(participants, k)]
        /\ Len(meta_file.content) = 1

\* the same batch exported twice, at different instants
C9_Witness ==
    /\ SameBatchAgain
    /\ Len(participants) = 2
    /\ meta_file.content[1].generated_at # before.meta.content[1].generated_at
    /\ meta_file.content[1].last_update # before.meta.content[1].last_update

-----------------------------------------------------------------------------
(* C10: every cycle goes IDLE -> FETCHING -> (EXPORTING | ABORTED) ->      *)
(* IDLE; EXPORTING is entered from FETCHING with a non-empty batch,        *)
(* ABORTED exactly when the batch is empty, no file is written while       *)
(* FETCHING, and a cycle starts only from IDLE.                            *)
Phase(p) ==
    IF p \in GenCsvPcs THEN "EXPORTING"
    ELSE IF p \in {"no_participants", "except"} THEN "ABORTED"
    ELSE IF p \in UpdatePcs THEN "FETCHING"
    ELSE "IDLE"

PhaseSteps ==
    {<<"IDLE", "IDLE">>, <<"IDLE", "FETCHING">>, <<"FETCHING", "FETCHING">>,
     <<"FETCHING", "EXPORTING">>, <<"FETCHING", "ABORTED">>,
     <<"EXPORTING", "EXPORTING">>, <<"EXPORTING", "IDLE">>,
     <<"ABORTED", "ABORTED">>, <<"ABORTED", "IDLE">>}

\* the records fetched so far in the cycle
Fetched == all_participants \o participants

C10_CycleStateMachine ==
    [][(InRun /\ mode' = "run_automation" /\ ~interrupted') =>
        /\ <<Phase(pc), Phase(pc')>> \in PhaseSteps
        /\ (Phase(pc) = "FETCHING" /\ Phase(pc') = "EXPORTING") =>
              (pc = "branch" /\ participants # << >>)
        /\ (Phase(pc) = "FETCHING" /\ Phase(pc') = "ABORTED") => Fetched = << >>
        /\ (pc = "branch" /\ Fetched = << >>) => Phase(pc') = "ABORTED"
        /\ Phase(pc) = "FETCHING" => files' = files
        /\ pc' = "update" => Phase(pc) = "IDLE"]_vars

\* the same, for the cycles in which no response is a JSON scalar
C10_CycleStateMachineUnlessScalar ==
    [][(InRun /\ mode' = "run_automation" /\ ~interrupted' /\ data.type # "scalar") =>
        /\ <<Phase(pc), Phase(pc')>> \in PhaseSteps
        /\ (Phase(pc) = "FETCHING" /\ Phase(pc') = "EXPORTING") =>
              (pc = "branch" /\ participants # << >>)
        /\ (Phase(pc) = "FETCHING" /\ Phase(pc') = "ABORTED") => Fetched = << >>
        /\ (pc = "branch" /\ Fetched = << >>) => Phase(pc') = "ABORTED"
        /\ Phase(pc) = "FETCHING" => files' = files
        /\ pc' = "update" => Phase(pc) = "IDLE"]_vars

====
